---- MODULE Spec2Model ----
(***************************************************************************)
(* Model of find_similar_patterns (src/maincode.py, lines 27-51): the      *)
(* sliding-window similarity search with the one-match-per-calendar-day    *)
(* selection.  One behaviour is one call: the arguments are drawn in Init, *)
(* and every loop iteration of the function is one step.                   *)
(*                                                                         *)
(* Abstractions, all order-preserving:                                     *)
(*  - closes are small naturals, so sums and products are exact;           *)
(*  - a correlation r is kept as the exact rational sign(r) * r^2 in       *)
(*    lowest terms (x |-> sign(x) * x^2 is a strictly increasing bijection *)
(*    of [-1, 1]), or as NaN when a variance is zero;                      *)
(*  - a timestamp is an integer number of time units, DayLen units make a  *)
(*    calendar day, bars are a fixed number of units apart.                *)
(***************************************************************************)
EXTENDS Integers, Sequences, FiniteSets, TLC

\* ---------------------------------------------------------------- bounds
MaxLen == 5        \* longest series
MaxClose == 1      \* closes are drawn from 0 .. MaxClose
MaxWindow == 2     \* window is drawn from -1 .. MaxWindow
MaxForward == 1    \* forward is drawn from -2 .. MaxForward
MaxTopN == 2       \* top_n is drawn from -1 .. MaxTopN
DayLen == 2        \* time units per calendar day; bar spacing is 1 .. DayLen
LongLen == 10      \* length of the long series of SpecLong

VARIABLES df, window, forward, top_n, pc, i, current, similarities, scored,
          picked, results, k, err

vars == <<df, window, forward, top_n, pc, i, current, similarities, scored,
          picked, results, k, err>>

\* ------------------------------------------------------- python helpers
Min(a, b) == IF a < b THEN a ELSE b
Max(a, b) == IF a < b THEN b ELSE a

\* A slice bound as Python normalises it for a sequence of length n.
SliceBound(b, n) == IF b < 0 THEN Max(b + n, 0) ELSE Min(b, n)

\* s.iloc[start:stop] with 0-based, possibly negative, bounds.
ILocSlice(s, start, stop) ==
    LET lo == SliceBound(start, Len(s))
        hi == SliceBound(stop, Len(s))
    IN  IF hi <= lo THEN <<>> ELSE SubSeq(s, lo + 1, hi)

\* s.iloc[-w:] : the stop is open.
ILocTail(s, w) == ILocSlice(s, -w, Len(s))

\* s.iloc[j] is an IndexError outside -len .. len-1.
ILocInRange(s, j) == j >= -Len(s) /\ j < Len(s)
ILocAt(s, j) == IF j < 0 THEN s[j + Len(s) + 1] ELSE s[j + 1]

\* df["close"] and df["timestamp"].
Closes(d) == [j \in 1..Len(d) |-> d[j].close]
Timestamps(d) == [j \in 1..Len(d) |-> d[j].timestamp]

\* ts.strftime("%Y-%m-%d"): the calendar day a timestamp falls on.
Day(ts) == ts \div DayLen

\* ---------------------------------------------------------- np.corrcoef
RECURSIVE SumSeq(_)
SumSeq(s) == IF s = <<>> THEN 0 ELSE Head(s) + SumSeq(Tail(s))

Prod(x, y) == [j \in 1..Len(x) |-> x[j] * y[j]]

\* n * covariance and n * variance, scaled to stay in the integers.
Cov(x, y) == Len(x) * SumSeq(Prod(x, y)) - SumSeq(x) * SumSeq(y)
Var(x) == Cov(x, x)

RECURSIVE GCD(_, _)
GCD(a, b) == IF b = 0 THEN a ELSE GCD(b, a % b)

Abs(a) == IF a < 0 THEN -a ELSE a
Sign(a) == IF a < 0 THEN -1 ELSE IF a > 0 THEN 1 ELSE 0

NaN == [nan |-> TRUE, num |-> 0, den |-> 1]

Ratio(p, q) ==
    LET g == GCD(Abs(p), q)
    IN  [nan |-> FALSE, num |-> p \div g, den |-> q \div g]

\* np.corrcoef(x, y)[0, 1] for equal-length x, y: cov / sqrt(var_x * var_y),
\* NaN (0/0) when either variance is zero.
Corrcoef(x, y) ==
    IF Var(x) = 0 \/ Var(y) = 0 THEN NaN
    ELSE Ratio(Sign(Cov(x, y)) * Cov(x, y) * Cov(x, y), Var(x) * Var(y))

\* Float comparisons: every comparison with NaN is false.
FloatLt(a, b) == ~a.nan /\ ~b.nan /\ a.num * b.den < b.num * a.den
FloatEq(a, b) == ~a.nan /\ ~b.nan /\ a.num * b.den = b.num * a.den
FloatGe(a, b) == ~a.nan /\ ~b.nan /\ a.num * b.den >= b.num * a.den
FloatLe(a, b) == FloatGe(b, a)

\* ------------------------------------------------------------ list.sort
\* similarities.sort(key=lambda x: x[0], reverse=True), as the interpreter's
\* list sort carries it out on a list of fewer than 64 elements: the list is
\* reversed, its leading run is found (and reversed when strictly descending),
\* the remaining elements are placed by binary insertion, and the list is
\* reversed again.  Only `<` on the keys is used.  On keys that `<` orders
\* totally this is the stable descending order; with a NaN key `<` is
\* inconsistent and the steps below decide where each element lands.
Range(s) == {s[j] : j \in 1..Len(s)}

Reverse(s) == [j \in 1..Len(s) |-> s[Len(s) + 1 - j]]

\* key=lambda x: x[0], compared with `<`
KeyLt(a, b) == FloatLt(a.corr, b.corr)

RECURSIVE AscendingRun(_, _)
AscendingRun(s, n) ==
    IF n < Len(s) /\ ~KeyLt(s[n + 1], s[n]) THEN AscendingRun(s, n + 1) ELSE n

RECURSIVE DescendingRun(_, _)
DescendingRun(s, n) ==
    IF n < Len(s) /\ KeyLt(s[n + 1], s[n]) THEN DescendingRun(s, n + 1) ELSE n

\* The length of the run the list starts with, and whether it descends.
CountRun(s) ==
    IF Len(s) < 2 THEN [n |-> Len(s), descending |-> FALSE]
    ELSE IF KeyLt(s[2], s[1])
         THEN [n |-> DescendingRun(s, 2), descending |-> TRUE]
         ELSE [n |-> AscendingRun(s, 2), descending |-> FALSE]

\* Where the pivot goes among s[l .. r-1].
RECURSIVE BinarySearch(_, _, _, _)
BinarySearch(s, pivot, l, r) ==
    IF l < r
    THEN LET p == l + ((r - l) \div 2)
         IN  IF KeyLt(pivot, s[p]) THEN BinarySearch(s, pivot, l, p)
                                   ELSE BinarySearch(s, pivot, p + 1, r)
    ELSE l

\* Binary insertion of s[start+1 ..] into the prefix s[1 .. start].
RECURSIVE BinarySort(_, _)
BinarySort(s, start) ==
    IF start >= Len(s) THEN s
    ELSE LET pivot == s[start + 1]
             l == BinarySearch(s, pivot, 1, start + 1)
         IN  BinarySort(SubSeq(s, 1, l - 1) \o <<pivot>> \o SubSeq(s, l, start)
                            \o SubSeq(s, start + 2, Len(s)),
                        start + 1)

SortAscending(s) ==
    LET run == CountRun(s)
        s1 == IF run.descending
                 THEN Reverse(SubSeq(s, 1, run.n)) \o SubSeq(s, run.n + 1, Len(s))
                 ELSE s
    IN  BinarySort(s1, Max(run.n, 1))

ListSort(s) == Reverse(SortAscending(Reverse(s)))

\* ------------------------------------------------------------ the inputs
BarSeries(n, t0, step, cl) ==
    [j \in 1..n |-> [timestamp |-> t0 + (j - 1) * step, close |-> cl[j]]]

SeriesOfLen(n) ==
    {BarSeries(n, 0, step, cl) : step \in 1..DayLen, cl \in [1..n -> 0..MaxClose]}

SeriesInputs == UNION {SeriesOfLen(n) : n \in 0..MaxLen}

Call(inputs) ==
    /\ df \in inputs
    /\ window \in -1..MaxWindow
    /\ forward \in -2..MaxForward
    /\ top_n \in -1..MaxTopN
    /\ pc = "start"
    /\ i = 0
    /\ current = <<>>
    /\ similarities = <<>>
    /\ scored = <<>>
    /\ picked = {}
    /\ results = <<>>
    /\ k = 1
    /\ err = "none"

Init == Call(SeriesInputs)

\* The same calls, and calls on series long enough for the insertion sort to
\* probe past a NaN key.
InitLong == Call(SeriesInputs \cup SeriesOfLen(LongLen))

\* A scan that leaves no room for the forward continuation.
RangeLenNoForward(n, w, f) == n - w

\* range(len(df) - window - forward)
RangeLen(n, w, f) == n - w - f

\* ------------------------------------------------------------- actions
\* lines 28-29
Enter ==
    /\ pc = "start"
    /\ current' = ILocTail(Closes(df), window)
    /\ similarities' = <<>>
    /\ i' = 0
    /\ pc' = "scoring"
    /\ UNCHANGED <<df, window, forward, top_n, scored, picked, results, k, err>>

Past == ILocSlice(Closes(df), i, i + window)

InLoop == pc = "scoring" /\ i < RangeLen(Len(df), window, forward)

\* lines 33-34
ScoreSkip ==
    /\ InLoop
    /\ Len(Past) < window
    /\ i' = i + 1
    /\ UNCHANGED <<df, window, forward, top_n, pc, current, similarities,
                   scored, picked, results, k, err>>

\* line 35: np.corrcoef stacks the two arrays and raises on unequal lengths
ScoreValueError ==
    /\ InLoop
    /\ ~(Len(Past) < window)
    /\ Len(Past) # Len(current)
    /\ pc' = "raised"
    /\ err' = "ValueError"
    /\ UNCHANGED <<df, window, forward, top_n, i, current, similarities,
                   scored, picked, results, k>>

\* line 36: the anchor bar does not exist
ScoreIndexError ==
    /\ InLoop
    /\ ~(Len(Past) < window)
    /\ Len(Past) = Len(current)
    /\ ~ILocInRange(df, i + window)
    /\ scored' = Append(scored, [idx |-> i, past |-> Past, cur |-> current])
    /\ pc' = "raised"
    /\ err' = "IndexError"
    /\ UNCHANGED <<df, window, forward, top_n, i, current, similarities,
                   picked, results, k>>

\* lines 32-37
ScoreAppend ==
    /\ InLoop
    /\ ~(Len(Past) < window)
    /\ Len(Past) = Len(current)
    /\ ILocInRange(df, i + window)
    /\ scored' = Append(scored, [idx |-> i, past |-> Past, cur |-> current])
    /\ similarities' = Append(similarities,
                              [corr |-> Corrcoef(current, Past),
                               idx |-> i,
                               ts |-> ILocAt(Timestamps(df), i + window)])
    /\ i' = i + 1
    /\ UNCHANGED <<df, window, forward, top_n, pc, current, picked, results,
                   k, err>>

\* lines 39-42
Sort ==
    /\ pc = "scoring"
    /\ ~(i < RangeLen(Len(df), window, forward))
    /\ similarities' = ListSort(similarities)
    /\ picked' = {}
    /\ results' = <<>>
    /\ k' = 1
    /\ pc' = "selecting"
    /\ UNCHANGED <<df, window, forward, top_n, i, current, scored, err>>

\* A selection that never finds the day already picked.
IsNewDayAlways(day, pk) == TRUE

\* line 45
IsNewDay(day, pk) == day \notin pk

\* line 48
Full(res, n) == Len(res) >= n

\* lines 43-49, the branch that accepts
SelectAccept ==
    /\ pc = "selecting"
    /\ k <= Len(similarities)
    /\ IsNewDay(Day(similarities[k].ts), picked)
    /\ picked' = picked \cup {Day(similarities[k].ts)}
    /\ results' = Append(results, similarities[k])
    /\ IF Full(results', top_n)
          THEN pc' = "return" /\ k' = k
          ELSE pc' = pc /\ k' = k + 1
    /\ UNCHANGED <<df, window, forward, top_n, i, current, similarities,
                   scored, err>>

\* lines 43-49, the branch that skips a day already picked
SelectSkip ==
    /\ pc = "selecting"
    /\ k <= Len(similarities)
    /\ ~IsNewDay(Day(similarities[k].ts), picked)
    /\ IF Full(results, top_n)
          THEN pc' = "return" /\ k' = k
          ELSE pc' = pc /\ k' = k + 1
    /\ UNCHANGED <<df, window, forward, top_n, i, current, similarities,
                   scored, picked, results, err>>

\* line 51, after the break or after the list is exhausted
Return ==
    /\ \/ pc = "return"
       \/ pc = "selecting" /\ k > Len(similarities)
    /\ pc' = "done"
    /\ UNCHANGED <<df, window, forward, top_n, i, current, similarities,
                   scored, picked, results, k, err>>

Next ==
    \/ Enter
    \/ ScoreSkip
    \/ ScoreValueError
    \/ ScoreIndexError
    \/ ScoreAppend
    \/ Sort
    \/ SelectAccept
    \/ SelectSkip
    \/ Return

Spec == Init /\ [][Next]_vars

SpecLong == InitLong /\ [][Next]_vars

\* ------------------------------------------------------------ properties
\* The call the interface describes: window positive, forward and top_n
\* non-negative.
ValidCall == window >= 1 /\ forward >= 0 /\ top_n >= 0

\* A valid call whose windows hold at least two closes, so that a window can
\* have a variance other than zero.
PatternCall == ValidCall /\ window >= 2

AllScoresDefined == \A c \in Range(similarities) : ~c.corr.nan

Sorted == pc \in {"selecting", "return", "done"}

Days(s) == {Day(s[j].ts) : j \in 1..Len(s)}

\* C1: the returned list has length at most top_n for every top_n >= 0; in
\* particular top_n = 0 returns an empty list even when candidates exist.
\* (Stated on the calls whose scores are all defined.)
C1_LengthAtMostTopN ==
    (ValidCall /\ AllScoresDefined /\ pc = "done") => Len(results) <= top_n

\* C2: no two accepted matches have anchor timestamps on the same calendar
\* day, at every step of the selection loop, and the picked-day set is the set
\* of days of the matches accepted so far.
C2_DistinctDays ==
    Sorted =>
        /\ \A a, b \in 1..Len(results) :
               a < b => Day(results[a].ts) # Day(results[b].ts)
        /\ picked = Days(results)

\* C2 reached: two matches returned and an earlier-ranked candidate passed
\* over because its day was already taken.
C2_Witness ==
    /\ pc = "done"
    /\ Len(results) >= 2
    /\ \E j \in 1..Len(similarities) :
          /\ j < k
          /\ similarities[j] \notin Range(results)
          /\ Day(similarities[j].ts) \in picked

\* C3: candidates whose score is NaN are discarded during scoring: none is
\* kept as a candidate, returned, or marks a calendar day as used.
C3_NaNDiscarded ==
    PatternCall =>
        /\ \A j \in 1..Len(similarities) : ~similarities[j].corr.nan
        /\ \A j \in 1..Len(results) : ~results[j].corr.nan

\* C4: the returned list is ordered best match first: result[i].score >=
\* result[i+1].score for every adjacent pair, for every input series.
C4_BestFirst ==
    (PatternCall /\ pc = "done") =>
        \A j \in 1..(Len(results) - 1) :
            FloatGe(results[j].corr, results[j + 1].corr)

\* C5: of two candidates with exactly equal scores the one with the smaller
\* start_index comes first in the sorted list and in the result, and is the one
\* accepted when both fall on the same calendar day.
C5_TieBreak ==
    (ValidCall /\ Sorted) =>
        /\ \A a, b \in 1..Len(similarities) :
               (/\ FloatEq(similarities[a].corr, similarities[b].corr)
                /\ similarities[a].idx < similarities[b].idx) => a < b
        /\ \A a, b \in 1..Len(results) :
               (/\ FloatEq(results[a].corr, results[b].corr)
                /\ results[a].idx < results[b].idx) => a < b
        /\ \A a, b \in 1..Len(similarities) :
               (/\ FloatEq(similarities[a].corr, similarities[b].corr)
                /\ similarities[a].idx < similarities[b].idx
                /\ Day(similarities[a].ts) = Day(similarities[b].ts))
               => similarities[b] \notin Range(results)

\* C6: a call with a series shorter than window + forward ends in the
\* InsufficientData error, never in a normal return.
C6_InsufficientData ==
    (ValidCall /\ Len(df) < window + forward) =>
        /\ pc # "done"
        /\ pc = "raised" => err = "InsufficientData"

\* C7: a call with window <= 0, forward < 0 or top_n < 0 is rejected with
\* InvalidParameters before any candidate is scored and returns no list.
C7_InvalidParameters ==
    (window <= 0 \/ forward < 0 \/ top_n < 0) =>
        /\ scored = <<>>
        /\ pc # "done"
        /\ pc = "raised" => err = "InvalidParameters"

ValidCandidates == {c \in Range(similarities) : ~c.corr.nan}

\* C8: for top_n >= 1 the result length is min(top_n, number of distinct
\* calendar days among the valid candidates); with no valid candidate the
\* result is empty.
C8_ResultSize ==
    (PatternCall /\ top_n >= 1 /\ pc = "done") =>
        Len(results) = Min(top_n, Cardinality({Day(c.ts) : c \in ValidCandidates}))

\* C9: for window >= 1 and forward >= 0 the start indices scored are exactly
\* 0 .. len - window - forward - 1, each once and in order, each against the
\* last `window` closes; the tail window is never a candidate; the anchor and
\* the end of the continuation lie within the series; nothing is raised.
C9_ScannedIndices ==
    (window >= 1 /\ forward >= 0) =>
        LET n == Len(df)
            closes == [j \in 1..n |-> df[j].close]
        IN  /\ pc # "raised"
            /\ \A j \in 1..Len(scored) :
                   /\ scored[j].idx = j - 1
                   /\ scored[j].idx + window + forward < n
                   /\ scored[j].idx # n - window
                   /\ scored[j].cur = SubSeq(closes, n - window + 1, n)
                   /\ scored[j].past =
                          SubSeq(closes, scored[j].idx + 1, scored[j].idx + window)
            /\ Len(similarities) = Len(scored)
            /\ \A c \in Range(similarities) :
                   /\ c.idx \in 0..(Len(scored) - 1)
                   /\ c.ts = df[c.idx + window + 1].timestamp
            /\ pc = "scoring" => Len(scored) = i
            /\ pc \in {"selecting", "return", "done"} =>
                   /\ Len(scored) = Max(0, n - window - forward)
                   /\ (scored = <<>>) <=> (n < window + forward + 1)

\* C9 reached: a finished call that left room for a non-empty continuation
\* and scored several start indices.
C9_Witness ==
    /\ pc = "done"
    /\ window >= 2
    /\ forward >= 1
    /\ Len(scored) >= 2

\* C10: every returned match is the best candidate of its day (the earliest
\* one among equals), and every candidate of a day without a returned match
\* scores no higher than the last returned match.
C10_BestOfDay ==
    (PatternCall /\ top_n >= 1 /\ pc = "done") =>
        /\ \A m \in Range(results) : \A c \in Range(similarities) :
               (c # m /\ Day(c.ts) = Day(m.ts)) =>
                   /\ FloatLe(c.corr, m.corr)
                   /\ FloatEq(c.corr, m.corr) => m.idx < c.idx
        /\ \A c \in Range(similarities) :
               (Day(c.ts) \notin Days(results) /\ results # <<>>) =>
                   FloatLe(c.corr, results[Len(results)].corr)

====
